---- MODULE Spec2Model ----
(***************************************************************************)
(* Model of ipod/main.py: the orchestration layer that splits the orbit    *)
(* identifiers into chunks and runs ipod_worker on every chunk, either as  *)
(* ray tasks (ipod_worker_remote) admitted under a cap on the number of    *)
(* outstanding futures, or one after the other in the calling process.     *)
(*                                                                         *)
(* Orbit identifiers are modelled by their position 0 .. N-1 in orbit_ids. *)
(* A table (FittedOrbits, FittedOrbitMembers, ...) is the sequence of its  *)
(* rows; a row is the identifier it belongs to.                            *)
(***************************************************************************)
EXTENDS Integers, Sequences, FiniteSets, TLC

\* ------------------------------------------------------------------ bounds
MaxN == 4
MaxW == 2
MaxC == 2
PlanMaxN == 25
PlanMaxW == 10
PlanMaxC == 10

VARIABLES
    n,                  \* len(orbit_ids)
    orbit_rows,         \* the identifiers that have a row in `orbits`
    max_processes,      \* the worker count W (after the None -> cpu_count step)
    chunk_size_arg,     \* chunk_size as the caller passed it
    chunk_size,         \* the local chunk_size, reassigned on the ray path
    use_ray,            \* what initialize_use_ray returned
    fails,              \* the identifiers for which ipod(...) raises
    forms,              \* how orbits / orbit_members / observations were passed
    pc,                 \* position of the driver
    pos,                \* next start index of the chunk generator
    dispatched,         \* the chunk ranges produced so far, in order
    tasks,              \* task number -> state of that chunk's ipod_worker call
    futures,            \* the list `futures` (task numbers)
    totals,             \* the four running totals
    merged,             \* task numbers merged into the totals, in merge order
    refs_to_free,       \* the list `refs_to_free`
    store,              \* references alive in the object store
    freed               \* references passed to ray.internal.free

vars == << n, orbit_rows, max_processes, chunk_size_arg, chunk_size, use_ray, fails, forms, pc, pos,
           dispatched, tasks, futures, totals, merged, refs_to_free, store,
           freed >>

\* ----------------------------------------------------------------- helpers
Min(a, b) == IF a <= b THEN a ELSE b

\* np.ceil(a / b).astype(int) for a >= 0, b >= 1
CeilDiv(a, b) == (a + b - 1) \div b

Range(s) == { s[i] : i \in DOMAIN s }

\* rows of a table as an unordered multiset: row -> number of occurrences
BagOf(s) == [ x \in Range(s) |-> Cardinality({ i \in DOMAIN s : s[i] = x }) ]

\* the identifiers start, start + 1, ..., end - 1 in order
RECURSIVE Ids(_, _)
Ids(start, end) == IF start >= end THEN << >> ELSE << start >> \o Ids(start + 1, end)

\* ------------------------------------------------ tables and the quadruple
\* FittedOrbits.empty(), FittedOrbitMembers.empty(), PrecoveryCandidates.empty(),
\* SearchSummary.empty()
EmptyQuad == [ orbits |-> << >>, members |-> << >>,
               candidates |-> << >>, summary |-> << >> ]

\* qv.concatenate([a, b]) followed by qv.defragment, once per collection
Concatenate(a, b) ==
    [ orbits     |-> a.orbits \o b.orbits,
      members    |-> a.members \o b.members,
      candidates |-> a.candidates \o b.candidates,
      summary    |-> a.summary \o b.summary ]

\* What ipod(orbit, ...) returns for one identifier when it does not raise:
\* one refined orbit, its member rows, its precovery candidates, one summary row.
ipod(orbit_id) ==
    [ orbits     |-> << orbit_id >>,
      members    |-> << orbit_id, orbit_id >>,
      candidates |-> IF orbit_id % 2 = 0 THEN << orbit_id >> ELSE << >>,
      summary    |-> << orbit_id >> ]

\* --------------------------------------------------------- chunk planning
\* Variant: the ceiling taken as floor + 1, which is one too many when the
\* worker count divides the number of identifiers.
EffectiveChunkSizeFloorPlusOne(N, W, C) == Min((N \div W) + 1, C)

\* Variant: the nominal chunk size taken as it is, the worker count ignored.
EffectiveChunkSizeNominal(N, W, C) == C

\* chunk_size = np.minimum(np.ceil(len(orbit_ids) / max_processes).astype(int), chunk_size)
EffectiveChunkSize(N, W, C) == Min(CeilDiv(N, W), C)

\* One item of adam_core's _iterate_chunk_indices(orbit_ids, chunk_size):
\* for i in range(0, len, chunk_size): yield (i, min(i + chunk_size, len))
NextIndices(i, size, N) == << i, Min(i + size, N) >>

\* Variant: the end index taken as inclusive upper bound minus one.
SliceShort(N, indices) == Ids(indices[1], Min(indices[2], N) - 1)

\* orbit_ids[orbit_ids_indices[0] : orbit_ids_indices[1]]
Slice(N, indices) == Ids(indices[1], Min(indices[2], N))

\* One item of adam_core's _iterate_chunks(orbit_ids, chunk_size):
\* for i in range(0, len, chunk_size): yield orbit_ids[i : i + chunk_size]
NextChunk(i, size, N) == Slice(N, << i, i + size >>)

\* Variant: the length of futures tested against the worker count itself.
AtCapacityWorkers(len, W) == len >= W

\* Variant: the test of the length of futures with > in place of >=.
AtCapacityStrict(len, W) == 2 * len > 3 * W

\* len(futures) >= max_processes * 1.5
AtCapacity(len, W) == 2 * len >= 3 * W

\* ceil(1.5 * W)
Ceil15(W) == (3 * W + 1) \div 2

\* ------------------------------------------------------ shared-store inputs
Forms ==
    [ orbits        : { "value", "ref" },
      orbit_members : { "none", "value", "ref" },
      observations  : { "none", "value", "ref" } ]

\* references the caller passed in (isinstance(x, ray.ObjectRef))
CallerRefs(f) ==
    { name \in { "orbits", "orbit_members", "observations" } : f[name] = "ref" }

\* Variant: every input is placed, also one that came as a reference.
PlacedRefsAlways(f) ==
    << "orbit_ids", "orbits" >>
    \o (IF f.orbit_members # "none" THEN << "orbit_members" >> ELSE << >>)
    \o (IF f.observations # "none" THEN << "observations" >> ELSE << >>)

\* the appends to refs_to_free, in the order the driver makes them
PlacedRefs(f) ==
    << "orbit_ids" >>
    \o (IF f.orbits = "value" THEN << "orbits" >> ELSE << >>)
    \o (IF f.orbit_members = "value" THEN << "orbit_members" >> ELSE << >>)
    \o (IF f.observations = "value" THEN << "observations" >> ELSE << >>)

\* lines 337-341: orbit_ids_ref, orbits_ref, orbit_members_ref and
\* observations_ref as passed to ipod_worker_remote.remote (None is no reference)
TaskRefs(f) ==
    { "orbit_ids", "orbits" }
    \cup (IF f.orbit_members # "none" THEN { "orbit_members" } ELSE { })
    \cup (IF f.observations # "none" THEN { "observations" } ELSE { })

\* Variant: the test of line 67 with `or` in place of `and`.
OrbitObservationsEither(f, orbit_id) ==
    IF f.orbit_members # "none" \/ f.observations # "none"
    THEN << orbit_id >> ELSE << >>

\* lines 67-97: orbit_observations of one identifier: the observations of
\* its members when both tables are there, None (the empty tuple) otherwise
OrbitObservations(f, orbit_id) ==
    IF f.orbit_members # "none" /\ f.observations # "none"
    THEN << orbit_id >> ELSE << >>

\* ------------------------------------------------------------------- tasks
\* A submitted ipod_worker_remote task, or an in-process ipod_worker call.
NewTask(indices, ids, remote) ==
    [ indices |-> indices,     \* orbit_ids_indices (remote task)
      refs   |-> IF remote THEN TaskRefs(forms) ELSE { },
                               \* the references among the task's arguments
      obs    |-> << >>,        \* orbit_observations of each ipod call
      ids    |-> ids,          \* orbit_id_chunk, once known
      remote |-> remote,       \* TRUE: ipod_worker_remote; FALSE: ipod_worker(database=dir)
      status |-> "pending",    \* pending, running, ok, failed
      k      |-> 0,            \* identifiers of the chunk already refined
      calls  |-> << >>,        \* identifiers ipod was invoked for, in order
      opens  |-> 0,            \* PrecoveryDatabase.from_dir calls
      closes |-> 0,            \* database.frames.close() calls
      out    |-> EmptyQuad ]   \* the worker's four accumulated collections

TaskIds == DOMAIN tasks

\* ------------------------------------------------------------------- Init
Quiet ==
    /\ pos = 0
    /\ dispatched = << >>
    /\ tasks = << >>
    /\ futures = << >>
    /\ totals = EmptyQuad
    /\ merged = << >>
    /\ refs_to_free = << >>
    /\ freed = << >>

Init ==
    /\ n \in 0 .. MaxN
    /\ orbit_rows = 0 .. n - 1
    /\ max_processes \in 1 .. MaxW
    /\ chunk_size_arg \in 1 .. MaxC
    /\ chunk_size = chunk_size_arg
    /\ use_ray \in BOOLEAN
    /\ fails \in SUBSET (0 .. n - 1)
    /\ forms \in Forms
    /\ store = CallerRefs(forms)
    /\ pc = "start"
    /\ Quiet


\* ---------------------------------------------------------- the accumulator
\* Variant: the chunk's summary table is left out of the totals.
AccumulateNoSummary(acc, chunk) ==
    [ Concatenate(acc, chunk) EXCEPT !.summary = acc.summary ]

\* Variant: the chunk's tables are put in front of the totals.
AccumulatePrepend(acc, chunk) == Concatenate(chunk, acc)

\* Variant: the chunk's collections assigned to the totals, not concatenated.
AccumulateReplace(acc, chunk) == chunk

\* lines 369-387, 398-416, 452-468: each of the four totals is concatenated
\* with the chunk's collection and then defragmented
Accumulate(acc, chunk) == Concatenate(acc, chunk)

Merge(t) ==
    /\ totals' = Accumulate(totals, tasks[t].out)
    /\ merged' = Append(merged, t)

\* Variant: the first future dropped from the list, whichever one was ready.
RemainingTail(t) == Tail(futures)

\* ray.wait(futures, num_returns=1): `finished` is one ready future, `futures`
\* becomes the others in their order
Remaining(t) == SelectSeq(futures, LAMBDA x : x # t)

Ready(t) == tasks[t].status \in { "ok", "failed" }

\* --------------------------------------------------------------- the driver
\* Variant: the test len(orbits) == 0 of line 273 left out.
StartNoEmptyReturn ==
    /\ pc = "start"
    /\ pc' = IF use_ray THEN "place" ELSE "seq"
    /\ UNCHANGED << n, orbit_rows, max_processes, chunk_size_arg, chunk_size, use_ray, fails, forms, pos,
                    dispatched, tasks, futures, totals, merged, refs_to_free,
                    store, freed >>

\* lines 250-299: resolve the inputs, return at once for no orbits, pick a path
Start ==
    /\ pc = "start"
    /\ pc' = IF n = 0 THEN "done" ELSE IF use_ray THEN "place" ELSE "seq"
    /\ UNCHANGED << n, orbit_rows, max_processes, chunk_size_arg, chunk_size, use_ray, fails, forms, pos,
                    dispatched, tasks, futures, totals, merged, refs_to_free,
                    store, freed >>

\* lines 301-333: ray.put what is not yet a reference, size the chunks
PlaceInputs ==
    /\ pc = "place"
    /\ refs_to_free' = PlacedRefs(forms)
    /\ store' = store \cup Range(PlacedRefs(forms))
    /\ chunk_size' = EffectiveChunkSize(n, max_processes, chunk_size)
    /\ futures' = << >>
    /\ pc' = "submit"
    /\ UNCHANGED << n, orbit_rows, max_processes, chunk_size_arg, use_ray, fails, forms, pos, dispatched,
                    tasks, totals, merged, freed >>

\* lines 334-360: the generator yields the next indices, the task is submitted
\* and appended to futures, then the length of futures is tested
Submit ==
    /\ pc = "submit"
    /\ pos < n
    /\ LET indices == NextIndices(pos, chunk_size, n)
           t == Len(tasks) + 1
       IN  /\ tasks' = Append(tasks, NewTask(indices, << >>, TRUE))
           /\ dispatched' = Append(dispatched, indices)
           /\ futures' = Append(futures, t)
           /\ pos' = pos + chunk_size
           /\ pc' = IF AtCapacity(Len(futures) + 1, max_processes)
                    THEN "wait" ELSE "submit"
    /\ UNCHANGED << n, orbit_rows, max_processes, chunk_size_arg, chunk_size, use_ray, fails, forms,
                    totals, merged, refs_to_free, store, freed >>

\* Variant: at the end of the submission loop the driver waits for a future
\* whether or not one is outstanding.
SubmitDoneWait ==
    /\ pc = "submit"
    /\ pos >= n
    /\ pc' = "wait"
    /\ UNCHANGED << n, orbit_rows, max_processes, chunk_size_arg, chunk_size, use_ray, fails, forms, pos,
                    dispatched, tasks, futures, totals, merged, refs_to_free,
                    store, freed >>

\* line 334: the generator is exhausted, the for loop ends
SubmitDone ==
    /\ pc = "submit"
    /\ pos >= n
    /\ pc' = "drain"
    /\ UNCHANGED << n, orbit_rows, max_processes, chunk_size_arg, chunk_size, use_ray, fails, forms, pos,
                    dispatched, tasks, futures, totals, merged, refs_to_free,
                    store, freed >>

\* lines 361-387: block until one future is ready, ray.get it (which raises
\* when the task raised) and merge its quadruple
WaitMerge(t) ==
    /\ pc = "wait"
    /\ t \in Range(futures)
    /\ Ready(t)
    /\ futures' = Remaining(t)
    /\ IF tasks[t].status = "ok"
       THEN Merge(t) /\ pc' = "submit"
       ELSE UNCHANGED << totals, merged >> /\ pc' = "aborted"
    /\ UNCHANGED << n, orbit_rows, max_processes, chunk_size_arg, chunk_size, use_ray, fails, forms, pos,
                    dispatched, tasks, refs_to_free, store, freed >>

\* Variant: a future whose task raised is dropped and the drain goes on.
DrainMergeSkipFailed(t) ==
    /\ pc = "drain"
    /\ t \in Range(futures)
    /\ Ready(t)
    /\ futures' = Remaining(t)
    /\ IF tasks[t].status = "ok"
       THEN Merge(t) /\ pc' = "drain"
       ELSE UNCHANGED << totals, merged >> /\ pc' = "drain"
    /\ UNCHANGED << n, orbit_rows, max_processes, chunk_size_arg, chunk_size, use_ray, fails, forms, pos,
                    dispatched, tasks, refs_to_free, store, freed >>

\* lines 389-416: the same, while futures is not empty
DrainMerge(t) ==
    /\ pc = "drain"
    /\ t \in Range(futures)
    /\ Ready(t)
    /\ futures' = Remaining(t)
    /\ IF tasks[t].status = "ok"
       THEN Merge(t) /\ pc' = "drain"
       ELSE UNCHANGED << totals, merged >> /\ pc' = "aborted"
    /\ UNCHANGED << n, orbit_rows, max_processes, chunk_size_arg, chunk_size, use_ray, fails, forms, pos,
                    dispatched, tasks, refs_to_free, store, freed >>

\* ray.internal.free(refs_to_free)
FreeRefs(refs) == refs

\* lines 418-422 and 470-478: futures is empty; free the references, return
Free ==
    /\ pc = "drain"
    /\ futures = << >>
    /\ IF Len(refs_to_free) > 0
       THEN /\ freed' = freed \o FreeRefs(refs_to_free)
            /\ store' = store \ Range(FreeRefs(refs_to_free))
       ELSE UNCHANGED << freed, store >>
    /\ pc' = "done"
    /\ UNCHANGED << n, orbit_rows, max_processes, chunk_size_arg, chunk_size, use_ray, fails, forms, pos,
                    dispatched, tasks, futures, totals, merged, refs_to_free >>

\* lines 425-451: the generator yields the next chunk and ipod_worker is
\* called on it in this process, with the database directory
SeqCall ==
    /\ pc = "seq"
    /\ pos < n
    /\ LET ids == NextChunk(pos, chunk_size, n)
       IN  /\ tasks' = Append(tasks, NewTask(<< pos, pos + chunk_size >>, ids, FALSE))
           /\ dispatched' = Append(dispatched, << pos, pos + Len(ids) >>)
           /\ pos' = pos + chunk_size
           /\ pc' = "seq_run"
    /\ UNCHANGED << n, orbit_rows, max_processes, chunk_size_arg, chunk_size, use_ray, fails, forms,
                    futures, totals, merged, refs_to_free, store, freed >>

\* Variant: an exception of the in-process ipod_worker is swallowed and the
\* loop goes on with the next chunk.
SeqReturnSwallow ==
    /\ pc = "seq_run"
    /\ Ready(Len(tasks))
    /\ IF tasks[Len(tasks)].status = "ok"
       THEN Merge(Len(tasks)) /\ pc' = "seq"
       ELSE UNCHANGED << totals, merged >> /\ pc' = "seq"
    /\ UNCHANGED << n, orbit_rows, max_processes, chunk_size_arg, chunk_size, use_ray, fails, forms, pos,
                    dispatched, tasks, futures, refs_to_free, store, freed >>

\* lines 431-468: ipod_worker returned (merge its quadruple) or raised
SeqReturn ==
    /\ pc = "seq_run"
    /\ Ready(Len(tasks))
    /\ IF tasks[Len(tasks)].status = "ok"
       THEN Merge(Len(tasks)) /\ pc' = "seq"
       ELSE UNCHANGED << totals, merged >> /\ pc' = "aborted"
    /\ UNCHANGED << n, orbit_rows, max_processes, chunk_size_arg, chunk_size, use_ray, fails, forms, pos,
                    dispatched, tasks, futures, refs_to_free, store, freed >>

\* lines 425, 470-478: no chunk is left, return the totals
SeqDone ==
    /\ pc = "seq"
    /\ pos >= n
    /\ pc' = "done"
    /\ UNCHANGED << n, orbit_rows, max_processes, chunk_size_arg, chunk_size, use_ray, fails, forms, pos,
                    dispatched, tasks, futures, totals, merged, refs_to_free,
                    store, freed >>

\* -------------------------------------------------------------- the workers
WorkerFrame ==
    UNCHANGED << n, orbit_rows, max_processes, chunk_size_arg, chunk_size, use_ray, fails, forms, pc, pos,
                 dispatched, futures, totals, merged, refs_to_free, store,
                 freed >>

\* ipod_worker_remote lines 166-173 (open the index, slice the identifiers),
\* ipod_worker lines 48-61 (open the index when given a directory)
WorkerStart(t) ==
    /\ t \in TaskIds
    /\ tasks[t].status = "pending"
    /\ tasks' = [ tasks EXCEPT
                    ![t].status = "running",
                    ![t].opens = @ + 1,
                    ![t].ids = IF tasks[t].remote
                               THEN Slice(n, tasks[t].indices) ELSE @ ]
    /\ WorkerFrame

\* Variant: an exception of ipod is logged and the loop goes on with the next
\* identifier.
WorkerRefineSkip(t) ==
    /\ t \in TaskIds
    /\ tasks[t].status = "running"
    /\ tasks[t].k < Len(tasks[t].ids)
    /\ LET orbit_id == tasks[t].ids[tasks[t].k + 1]
       IN  tasks' = [ tasks EXCEPT
                        ![t].calls = Append(@, orbit_id),
                        ![t].obs = Append(@, OrbitObservations(forms, orbit_id)),
                        ![t].k = @ + 1,
                        ![t].out = IF orbit_id \in fails THEN @
                                   ELSE Concatenate(@, ipod(orbit_id)) ]
    /\ WorkerFrame

\* Variant: an exception of ipod ends the loop and the worker returns what the
\* earlier identifiers gave.
WorkerRefineBreak(t) ==
    /\ t \in TaskIds
    /\ tasks[t].status = "running"
    /\ tasks[t].k < Len(tasks[t].ids)
    /\ LET orbit_id == tasks[t].ids[tasks[t].k + 1]
       IN  tasks' = [ tasks EXCEPT
                        ![t].calls = Append(@, orbit_id),
                        ![t].obs = Append(@, OrbitObservations(forms, orbit_id)),
                        ![t].k = IF orbit_id \in fails
                                 THEN Len(tasks[t].ids) ELSE @ + 1,
                        ![t].out = IF orbit_id \in fails THEN @
                                   ELSE Concatenate(@, ipod(orbit_id)) ]
    /\ WorkerFrame

\* ipod_worker lines 63-137: one pass of the loop over orbit_ids; an exception
\* of ipod is logged and raised again
WorkerRefine(t) ==
    /\ t \in TaskIds
    /\ tasks[t].status = "running"
    /\ tasks[t].k < Len(tasks[t].ids)
    /\ LET orbit_id == tasks[t].ids[tasks[t].k + 1]
       IN  tasks' = [ tasks EXCEPT
                        ![t].calls = Append(@, orbit_id),
                        ![t].obs = Append(@, OrbitObservations(forms, orbit_id)),
                        ![t].status = IF orbit_id \in fails THEN "failed" ELSE @,
                        ![t].k = IF orbit_id \in fails THEN @ ELSE @ + 1,
                        ![t].out = IF orbit_id \in fails THEN @
                                   ELSE Concatenate(@, ipod(orbit_id)) ]
    /\ WorkerFrame

\* database.frames.close() of ipod_worker_remote, line 201; an in-process
\* ipod_worker has no close
CloseOnReturn(remote) == IF remote THEN 1 ELSE 0

\* ipod_worker line 139, ipod_worker_remote lines 201-203
WorkerReturn(t) ==
    /\ t \in TaskIds
    /\ tasks[t].status = "running"
    /\ tasks[t].k = Len(tasks[t].ids)
    /\ tasks' = [ tasks EXCEPT
                    ![t].status = "ok",
                    ![t].closes = @ + CloseOnReturn(tasks[t].remote) ]
    /\ WorkerFrame

Next ==
    \/ Start
    \/ PlaceInputs
    \/ Submit
    \/ SubmitDone
    \/ \E t \in TaskIds : WaitMerge(t)
    \/ \E t \in TaskIds : DrainMerge(t)
    \/ Free
    \/ SeqCall
    \/ SeqReturn
    \/ SeqDone
    \/ \E t \in TaskIds : WorkerStart(t)
    \/ \E t \in TaskIds : WorkerRefine(t)
    \/ \E t \in TaskIds : WorkerReturn(t)

Spec == Init /\ [][Next]_vars

\* ------------------------------------------------------- runs to the end
\* The run with the steps that can be taken eventually taken: the driver
\* keeps running and every submitted task runs until it returns or raises.
\* The form of the inputs, which no step of a task or loop reads, is fixed.
InitLive ==
    /\ Init
    /\ forms = [ orbits |-> "value", orbit_members |-> "value",
                 observations |-> "value" ]

SpecLive == InitLive /\ [][Next]_vars /\ WF_vars(Next)

\* ------------------------------------------------- the planner on its own
\* The chunk planning of a run with the tasks left out: the driver up to the
\* generator, and then the generator alone, over larger inputs.
InitPlan ==
    /\ n \in 0 .. PlanMaxN
    /\ orbit_rows = 0 .. n - 1
    /\ max_processes \in 1 .. PlanMaxW
    /\ chunk_size_arg \in 1 .. PlanMaxC
    /\ chunk_size = chunk_size_arg
    /\ use_ray \in BOOLEAN
    /\ fails = { }
    /\ forms = [ orbits |-> "value", orbit_members |-> "none", observations |-> "none" ]
    /\ store = { }
    /\ pc = "start"
    /\ Quiet

PlanFrame ==
    UNCHANGED << n, orbit_rows, max_processes, chunk_size_arg, chunk_size, use_ray, fails,
                 forms, tasks, futures, totals, merged, refs_to_free, store,
                 freed >>

\* line 334: the next item of _iterate_chunk_indices(orbit_ids, chunk_size)
PlanIndices ==
    /\ pc = "submit"
    /\ pos < n
    /\ dispatched' = Append(dispatched, NextIndices(pos, chunk_size, n))
    /\ pos' = pos + chunk_size
    /\ pc' = "submit"
    /\ PlanFrame

\* line 425: the next item of _iterate_chunks(orbit_ids, chunk_size)
PlanChunk ==
    /\ pc = "seq"
    /\ pos < n
    /\ dispatched' = Append(dispatched,
                            << pos, pos + Len(NextChunk(pos, chunk_size, n)) >>)
    /\ pos' = pos + chunk_size
    /\ pc' = "seq"
    /\ PlanFrame

\* lines 334, 425: the generator is exhausted
PlanEnd ==
    /\ pc \in { "submit", "seq" }
    /\ pos >= n
    /\ pc' = "planned"
    /\ UNCHANGED << pos, dispatched >>
    /\ PlanFrame

NextPlan ==
    \/ Start
    \/ PlaceInputs
    \/ PlanIndices
    \/ PlanChunk
    \/ PlanEnd

SpecPlan == InitPlan /\ [][NextPlan]_vars

\* ----------------------------------------------------- derived quantities
\* tasks submitted whose result the driver has not retrieved
Outstanding == Len(futures)

Finished(t) == tasks[t].status \in { "ok", "failed" }

\* the identifiers of a dispatched range
RangeIds(r) == Slice(n, r)

RECURSIVE ConcatIds(_)
ConcatIds(rs) == IF rs = << >> THEN << >> ELSE RangeIds(Head(rs)) \o ConcatIds(Tail(rs))

\* the i-th range of a plan with chunks of `size`
PlannedRange(i, size) == << (i - 1) * size, Min(i * size, n) >>

PlannedWith(size) ==
    /\ Len(dispatched) = CeilDiv(n, size)
    /\ \A i \in DOMAIN dispatched : dispatched[i] = PlannedRange(i, size)

Sizes == [ i \in DOMAIN dispatched |-> dispatched[i][2] - dispatched[i][1] ]

\* the quadruple of the identifiers ids, refined one by one
RECURSIVE Refined(_)
Refined(ids) == IF ids = << >> THEN EmptyQuad
                ELSE Concatenate(ipod(Head(ids)), Refined(Tail(ids)))

\* the totals after merging the quadruples of the tasks ts in that order
RECURSIVE MergedInOrder(_)
MergedInOrder(ts) == IF ts = << >> THEN EmptyQuad
                     ELSE Concatenate(tasks[Head(ts)].out, MergedInOrder(Tail(ts)))

SameRows(a, b) ==
    /\ BagOf(a.orbits) = BagOf(b.orbits)
    /\ BagOf(a.members) = BagOf(b.members)
    /\ BagOf(a.candidates) = BagOf(b.candidates)
    /\ BagOf(a.summary) = BagOf(b.summary)

ChunkFails(t) == \E i \in tasks[t].indices[1] .. tasks[t].indices[2] - 1 :
                    i < n /\ i \in fails

\* ------------------------------------------------------------------ claims

\* C1: at every moment of a run the number of outstanding tasks (submitted,
\* result not yet retrieved) is at most ceil(1.5 * W).
BoundedInFlight == Outstanding <= Ceil15(max_processes)

\* the driver blocks in ray.wait with exactly ceil(1.5 * W) tasks outstanding
BoundedInFlightWitness ==
    /\ pc = "wait"
    /\ Outstanding = Ceil15(max_processes)
    /\ Len(tasks) > Outstanding

\* C2: every index handle opened for a chunk is closed exactly once when the
\* chunk's task has ended, whether it returned or raised, remote or in-process.
HandleClosedOnce ==
    \A t \in TaskIds :
        Finished(t) => tasks[t].opens = 1 /\ tasks[t].closes = 1

\* C3: a chunk with an identifier for which ipod raises is never merged, a run
\* with such an identifier never returns, and once the driver has raised
\* nothing more is merged and no further chunk is started.
NoFailedChunkMerged ==
    /\ \A t \in Range(merged) : ~ChunkFails(t)
    /\ \A t \in TaskIds :
          ChunkFails(t) =>
             \A i \in tasks[t].indices[1] .. tasks[t].indices[2] - 1 :
                 /\ i \notin Range(totals.orbits)
                 /\ i \notin Range(totals.members)
                 /\ i \notin Range(totals.candidates)
                 /\ i \notin Range(totals.summary)
    /\ pc = "done" => fails = { }

FailureAborts ==
    /\ []NoFailedChunkMerged
    /\ [][ pc = "aborted" =>
             /\ pc' = "aborted"
             /\ totals' = totals
             /\ merged' = merged
             /\ Len(tasks') = Len(tasks) ]_vars

\* the driver raised on the distributed path after merging a chunk, with
\* other chunks still outstanding
FailureAbortsWitness ==
    /\ pc = "aborted"
    /\ use_ray
    /\ merged # << >>
    /\ futures # << >>

\* C4: the ranges produced are non-empty, start at 0, each starts where the
\* one before it ends, and when the generator ends they cover 0 .. N-1, every
\* identifier once.
ChunkCoverage ==
    /\ \A i \in DOMAIN dispatched :
          /\ dispatched[i][1] < dispatched[i][2]
          /\ dispatched[i][1] = (IF i = 1 THEN 0 ELSE dispatched[i - 1][2])
          /\ dispatched[i][2] <= n
    /\ ConcatIds(dispatched) =
          Ids(0, IF dispatched = << >> THEN 0 ELSE dispatched[Len(dispatched)][2])
    /\ pc \in { "planned", "done" } => ConcatIds(dispatched) = Ids(0, n)

\* a finished plan of at least three chunks whose last chunk is a short one
ChunkCoverageWitness ==
    /\ pc = "planned"
    /\ Len(dispatched) >= 3
    /\ Sizes[Len(dispatched)] < Sizes[1]

\* C5 as claimed: both paths cut the identifiers into chunks of
\* min(ceil(N / W), C).
SameChunkingBothPaths ==
    pc = "planned" =>
        PlannedWith(Min(CeilDiv(n, max_processes), chunk_size_arg))

\* C5 amended: the distributed path cuts the identifiers into chunks of
\* min(ceil(N / W), C), the sequential path into chunks of C; N=25, W=4, C=10
\* gives 7,7,7,4 distributed (10,10,5 sequential) and N=5, W=10, C=10 gives
\* chunks of 1 distributed.
ChunkSizing ==
    /\ (use_ray /\ pc \in { "submit", "planned" }) =>
          chunk_size = Min(CeilDiv(n, max_processes), chunk_size_arg)
    /\ (use_ray /\ pc = "planned") =>
          PlannedWith(Min(CeilDiv(n, max_processes), chunk_size_arg))
    /\ (~use_ray /\ pc \in { "seq", "planned" }) => chunk_size = chunk_size_arg
    /\ (~use_ray /\ pc = "planned") => PlannedWith(chunk_size_arg)
    /\ (pc = "planned" /\ n = 25 /\ max_processes = 4 /\ chunk_size_arg = 10) =>
          Sizes = (IF use_ray THEN << 7, 7, 7, 4 >> ELSE << 10, 10, 5 >>)
    /\ (pc = "planned" /\ n = 5 /\ max_processes = 10 /\ chunk_size_arg = 10
          /\ use_ray) =>
          chunk_size = 1 /\ Sizes = << 1, 1, 1, 1, 1 >>

\* the distributed plan of N=25, W=4, C=10
ChunkSizingWitness ==
    /\ pc = "planned"
    /\ use_ray
    /\ n = 25 /\ max_processes = 4 /\ chunk_size_arg = 10
    /\ Len(dispatched) = 4

\* C6 as claimed: with N >= W the distributed plan has at least W chunks.
AtLeastWChunks ==
    (pc = "planned" /\ use_ray /\ n >= max_processes) =>
        Len(dispatched) >= max_processes

\* C6 amended: with N >= W the distributed plan has ceil(N / effective size)
\* chunks, which is more than W / 2, and at least W when W divides N or
\* N >= W * (W - 1).
ChunkCount ==
    (pc = "planned" /\ use_ray /\ n >= max_processes) =>
        /\ Len(dispatched) =
              CeilDiv(n, Min(CeilDiv(n, max_processes), chunk_size_arg))
        /\ 2 * Len(dispatched) > max_processes
        /\ (n % max_processes = 0 \/ n >= max_processes * (max_processes - 1)) =>
              Len(dispatched) >= max_processes

\* a plan of exactly W >= 3 chunks for an N that W does not divide
ChunkCountWitness ==
    /\ pc = "planned"
    /\ use_ray
    /\ max_processes >= 3
    /\ n % max_processes # 0
    /\ n >= max_processes * (max_processes - 1)
    /\ Len(dispatched) = max_processes

\* C7: when no identifier fails, a run that returns has merged every chunk
\* exactly once, holds one orbit row per identifier and has no future left.
AllMergedOnce ==
    (pc = "done" /\ fails = { }) =>
        /\ futures = << >>
        /\ Len(tasks) = Len(dispatched)
        /\ \A t \in TaskIds : tasks[t].status = "ok"
        /\ Len(merged) = Len(tasks)
        /\ Range(merged) = TaskIds
        /\ Len(totals.orbits) = n
        /\ BagOf(totals.orbits) = [ i \in 0 .. n - 1 |-> 1 ]

\* a distributed run returned after merging three or more chunks, the first
\* chunk not first
AllMergedOnceWitness ==
    /\ pc = "done"
    /\ use_ray
    /\ Len(merged) >= 3
    /\ merged[1] # 1

\* C8: whatever the order in which the dispatcher retrieved the tasks, the
\* final totals hold the same rows as a merge in submission order, collection
\* by collection, as multisets.
MergeOrderIndependent ==
    (pc = "done" /\ use_ray) =>
        SameRows(totals, MergedInOrder(Ids(1, Len(tasks) + 1)))

\* a run returned whose totals are in another row order than the merge in
\* submission order
MergeOrderIndependentWitness ==
    /\ pc = "done"
    /\ use_ray
    /\ Len(merged) >= 2
    /\ totals # MergedInOrder(Ids(1, Len(tasks) + 1))

\* C9: the outcome of a run is the same on both paths: it raises exactly when
\* some identifier fails, and otherwise returns the rows of all identifiers.
Outcome == IF fails = { } THEN "done" ELSE "aborted"

PathsAgree ==
    /\ pc \in { "done", "aborted" } => pc = Outcome
    /\ pc = "done" => SameRows(totals, Refined(Ids(0, n)))

\* a sequential run returned after merging another number of chunks than
\* the distributed path makes of the same input
PathsAgreeWitness ==
    /\ pc = "done"
    /\ ~use_ray
    /\ n >= 2
    /\ Len(merged) # CeilDiv(n, Min(CeilDiv(n, max_processes), chunk_size_arg))

\* C10: when a distributed run has ended, returned or raised, every reference
\* it placed has been freed.
RefsReleasedAtEnd ==
    (use_ray /\ n > 0 /\ pc \in { "done", "aborted" }) =>
        /\ Range(refs_to_free) \cap store = { }
        /\ Range(refs_to_free) \subseteq Range(freed)

\* C11: a run given zero identifiers returns four empty collections, and on
\* the way submits no task, calls ipod for nothing, opens no index and places
\* nothing in the object store.
EmptyInputIdle ==
    n = 0 =>
        /\ pc \in { "start", "done" }
        /\ totals = EmptyQuad
        /\ tasks = << >>
        /\ futures = << >>
        /\ dispatched = << >>
        /\ refs_to_free = << >>
        /\ store = CallerRefs(forms)

\* a run of zero identifiers has returned
EmptyInputIdleWitness ==
    /\ n = 0
    /\ pc = "done"
    /\ use_ray

\* The states of the run's state machine, read off the driver's position.
PhaseOf(p, ts) ==
    CASE p = "start"                    -> "EMPTY"
      [] p = "place"                    -> "PLANNING"
      [] p = "seq" /\ ts = << >>        -> "PLANNING"
      [] p \in { "submit", "seq_run" }  -> "DISPATCHING"
      [] p \in { "wait", "drain" }      -> "MERGING"
      [] p = "seq" /\ ts # << >>        -> "MERGING"
      [] p = "done"                     -> "DONE"
      [] p = "aborted"                  -> "ABORTED"
      [] OTHER                          -> "NONE"

Raised == \E t \in TaskIds : tasks[t].status = "failed"

\* EMPTY -> PLANNING -> {DISPATCHING <-> MERGING}* -> DONE, and ABORTED from
\* any state that is not terminal once a worker has raised
PhaseStep(a, b) ==
    \/ a = b
    \/ << a, b >> \in { << "EMPTY", "PLANNING" >>,
                        << "PLANNING", "DISPATCHING" >>,
                        << "PLANNING", "DONE" >>,
                        << "DISPATCHING", "MERGING" >>,
                        << "MERGING", "DISPATCHING" >>,
                        << "DISPATCHING", "DONE" >>,
                        << "MERGING", "DONE" >> }
    \/ b = "ABORTED" /\ a \notin { "DONE", "ABORTED" } /\ Raised

NeverDoneOnceRaised == Raised => pc # "done"

\* C12 as claimed: every step of a run is a step of EMPTY -> PLANNING ->
\* {DISPATCHING <-> MERGING}* -> DONE or a step to ABORTED after a worker
\* raised; DONE and ABORTED are left by no step; once a worker has raised the
\* run is never DONE and is eventually ABORTED.
RunStateMachineStrict ==
    /\ [][ PhaseStep(PhaseOf(pc, tasks), PhaseOf(pc', tasks')) ]_vars
    /\ []NeverDoneOnceRaised
    /\ (Raised ~> pc = "aborted")

\* C12 amended: the same, except that a run of zero identifiers goes from
\* EMPTY straight to DONE.
RunStateMachine ==
    /\ [][ \/ PhaseStep(PhaseOf(pc, tasks), PhaseOf(pc', tasks'))
           \/ n = 0 /\ pc = "start" /\ pc' = "done" ]_vars
    /\ []NeverDoneOnceRaised
    /\ (Raised ~> pc = "aborted")

\* the driver has raised on the distributed path while the drain loop was
\* running, after chunks had been merged
RunStateMachineWitness ==
    /\ pc = "aborted"
    /\ use_ray
    /\ pos >= n
    /\ Len(merged) >= 2
    /\ Raised

\* C13: every ipod call gets the observations of its identifier's members
\* when orbit_members and observations are both there, and no observations
\* at all when one of them or both are missing.
ObservationsOnlyWhenBoth ==
    \A t \in TaskIds :
        /\ Len(tasks[t].obs) = Len(tasks[t].calls)
        /\ \A i \in DOMAIN tasks[t].calls :
              tasks[t].obs[i] =
                 (IF forms.orbit_members # "none" /\ forms.observations # "none"
                  THEN << tasks[t].calls[i] >> ELSE << >>)

\* ipod was called in a run given orbit_members without observations
ObservationsOnlyWhenBothWitness ==
    /\ forms.orbit_members # "none"
    /\ forms.observations = "none"
    /\ \E t \in TaskIds : tasks[t].calls # << >> /\ tasks[t].obs[1] = << >>

\* C14: a chunk is submitted only while fewer than ceil(1.5 * W) tasks are
\* outstanding; the driver blocks only with ceil(1.5 * W) or more outstanding;
\* a block that ends by going back to submitting has taken exactly one
\* finished task out of futures and merged it, and nothing is submitted
\* while the driver is blocked.
AdmissionControl ==
    /\ [](pc = "wait" => Outstanding >= Ceil15(max_processes))
    /\ [](pc = "submit" => Outstanding < Ceil15(max_processes))
    /\ [][ Len(futures') > Len(futures) =>
              /\ pc = "submit"
              /\ Len(futures) < Ceil15(max_processes) ]_vars
    /\ [][ pc = "wait" =>
              /\ Len(tasks') = Len(tasks)
              /\ pc' = "submit" =>
                    /\ Len(futures') = Len(futures) - 1
                    /\ Len(merged') = Len(merged) + 1
                    /\ merged'[Len(merged')] \in Range(futures)
                    /\ merged'[Len(merged')] \notin Range(futures')
                    /\ tasks[merged'[Len(merged')]].status = "ok" ]_vars

\* the driver was blocked, has merged a task and is about to submit the next
\* chunk with one place free
AdmissionControlWitness ==
    /\ pc = "submit"
    /\ pos < n
    /\ merged # << >>
    /\ Outstanding = Ceil15(max_processes) - 1

\* C15: on both paths chunks are submitted by increasing start index. On the
\* sequential path a chunk is started only once every earlier chunk has been
\* merged, chunks are merged in submission order and the totals list the
\* identifiers in that order; on the distributed path the merge order is
\* whatever order finished tasks are picked in.
SubmissionOrder ==
    /\ \A i, j \in TaskIds :
          i < j => tasks[i].indices[1] < tasks[j].indices[1]
    /\ \A i \in DOMAIN dispatched : dispatched[i][1] = tasks[i].indices[1]
    /\ ~use_ray =>
          /\ merged = [ i \in 1 .. Len(merged) |-> i ]
          /\ Len(tasks) <= Len(merged) + 1
          /\ \A t \in TaskIds : t < Len(tasks) => t \in Range(merged)
          /\ totals.orbits = ConcatIds(SubSeq(dispatched, 1, Len(merged)))
    /\ use_ray =>
          \A i \in DOMAIN merged : /\ merged[i] \in TaskIds
                                   /\ tasks[merged[i]].status = "ok"

\* a distributed run has merged a later chunk before an earlier one
SubmissionOrderWitness ==
    /\ use_ray
    /\ Len(merged) >= 2
    /\ merged[1] > merged[2]
    /\ tasks[merged[1]].indices[1] > tasks[merged[2]].indices[1]

\* C16: a worker invokes the refinement routine for the identifiers of its
\* range in order; a worker that failed did so at its last invocation, the
\* first one to raise, it is never merged and no identifier of its chunk is in
\* the totals; a worker that returned has refined every identifier of its
\* range exactly once, in order.
ChunkAllOrNothing ==
    \A t \in TaskIds :
      LET c == tasks[t]
      IN  /\ Len(c.calls) <= Len(c.ids)
          /\ c.calls = SubSeq(c.ids, 1, Len(c.calls))
          /\ \A i \in 1 .. Len(c.calls) - 1 : c.calls[i] \notin fails
          /\ c.status = "failed" =>
                /\ c.calls # << >>
                /\ c.calls[Len(c.calls)] \in fails
                /\ t \notin Range(merged)
                /\ \A id \in Range(c.ids) : id \notin Range(totals.orbits)
          /\ c.status = "ok" =>
                /\ c.ids = Slice(n, c.indices)
                /\ c.calls = c.ids
                /\ c.out = Refined(c.ids)
                /\ c.out.orbits = c.ids

\* one worker failed on its first identifier and left the second alone,
\* another failed on its second identifier after the first had succeeded
ChunkAllOrNothingWitness ==
    \E t1, t2 \in TaskIds :
        /\ tasks[t1].status = "failed"
        /\ Len(tasks[t1].calls) < Len(tasks[t1].ids)
        /\ tasks[t2].status = "failed"
        /\ Len(tasks[t2].calls) = 2
        /\ tasks[t2].out # EmptyQuad

\* C17: at every moment each of the four totals holds, as a multiset, the rows
\* of exactly the chunks merged so far; the totals change only in a merge step
\* of the driver, which merges one finished chunk, and a step that submits a
\* chunk or advances a worker leaves them as they are.
RunningTotals ==
    /\ [](SameRows(totals, MergedInOrder(merged)))
    /\ [](Len(totals.orbits) = Len(ConcatIds([ i \in DOMAIN merged |->
                                                tasks[merged[i]].indices ])))
    /\ [][ totals' # totals =>
              /\ pc \in { "wait", "drain", "seq_run" }
              /\ Len(merged') = Len(merged) + 1
              /\ SubSeq(merged', 1, Len(merged)) = merged
              /\ tasks' = tasks
              /\ totals' = Concatenate(totals, tasks[merged'[Len(merged')]].out) ]_vars
    /\ [][ tasks' # tasks => totals' = totals /\ merged' = merged ]_vars

\* chunks have been merged while a worker has refined an identifier of a chunk
\* that is not merged yet
RunningTotalsWitness ==
    /\ Len(merged) >= 2
    /\ \E t \in TaskIds : /\ tasks[t].status = "running"
                          /\ tasks[t].k >= 1
                          /\ t \notin Range(merged)

\* C18: the run places each shared input at most once and places none the
\* caller gave as a reference; every task gets the caller's references and the
\* run's own, all of them in the store while the task is outstanding or
\* unfinished; what the run frees is what it placed itself, each once, never a
\* reference of the caller, and only when no task is outstanding.
StoreDiscipline ==
    /\ Cardinality(Range(refs_to_free)) = Len(refs_to_free)
    /\ Range(refs_to_free) \cap CallerRefs(forms) = { }
    /\ CallerRefs(forms) \subseteq store
    /\ Cardinality(Range(freed)) = Len(freed)
    /\ Range(freed) \subseteq Range(refs_to_free)
    /\ Range(freed) \cap CallerRefs(forms) = { }
    /\ freed # << >> => /\ futures = << >>
                        /\ \A t \in TaskIds : Finished(t)
    /\ \A t \in TaskIds :
          tasks[t].remote =>
              /\ CallerRefs(forms) \subseteq tasks[t].refs
              /\ tasks[t].refs = CallerRefs(forms) \cup Range(refs_to_free)
              /\ (t \in Range(futures) \/ ~Finished(t)) => tasks[t].refs \subseteq store

\* a distributed run of two or more tasks, given one input as a reference and
\* one by value, has returned and freed what it placed
StoreDisciplineWitness ==
    /\ pc = "done"
    /\ use_ray
    /\ Len(tasks) >= 2
    /\ forms.orbits = "ref"
    /\ forms.observations = "value"
    /\ "observations" \in Range(freed)
    /\ "orbits" \in store

\* C19: when every submitted task goes on to return or raise, every run ends,
\* returned or aborted, and stays ended; whenever the driver is blocked in a
\* wait of the submission loop or takes a future in the drain loop, some task
\* is outstanding.
RunTerminates ==
    /\ <>[](pc \in { "done", "aborted" })
    /\ [](pc = "wait" => futures # << >>)
    /\ [][ (pc \in { "wait", "drain" } /\ futures' # futures) =>
              /\ futures # << >>
              /\ Len(futures') = Len(futures) - 1 ]_vars
    /\ [](pc = "done" => futures = << >>)

\* a distributed run that went through the wait of the submission loop and
\* through the drain loop has returned
RunTerminatesWitness ==
    /\ pc = "done"
    /\ use_ray
    /\ Len(tasks) > Ceil15(max_processes)
    /\ Len(merged) = Len(tasks)

\* ------------------------------------------ one worker called on its own
\* ipod_worker (use_ray false) or ipod_worker_remote (use_ray true) called
\* with n identifiers and a candidate-orbit table that holds rows for
\* orbit_rows only, which need not cover the identifiers.
InitWorker ==
    /\ n \in 1 .. MaxN
    /\ orbit_rows \in SUBSET (0 .. n - 1)
    /\ max_processes = 1
    /\ chunk_size_arg = n
    /\ chunk_size = n
    /\ use_ray \in BOOLEAN
    /\ fails \in SUBSET (0 .. n - 1)
    /\ forms \in Forms
    /\ store = IF use_ray THEN TaskRefs(forms) ELSE CallerRefs(forms)
    /\ pc = "worker"
    /\ pos = n
    /\ dispatched = << << 0, n >> >>
    /\ tasks = << NewTask(<< 0, n >>,
                          IF use_ray THEN << >> ELSE Ids(0, n), use_ray) >>
    /\ futures = << >>
    /\ totals = EmptyQuad
    /\ merged = << >>
    /\ refs_to_free = << >>
    /\ freed = << >>

NextWorker ==
    \E t \in TaskIds :
        \/ WorkerStart(t)
        \/ WorkerRefine(t)
        \/ WorkerReturn(t)

SpecWorker == InitWorker /\ [][NextWorker]_vars

\* C20: an identifier of the worker's chunk that has no row in the
\* candidate-orbit table is never handed to the refinement routine, and a
\* worker whose chunk holds such an identifier does not return a batch.
MissingRowIsHardError ==
    \A t \in TaskIds :
        /\ \A id \in Range(tasks[t].ids) :
               id \notin orbit_rows => id \notin Range(tasks[t].calls)
        /\ tasks[t].status = "ok" => Range(tasks[t].ids) \subseteq orbit_rows

====
